---- MODULE Spec2Model ----
(***************************************************************************)
(* Canadian mortgage amortization engine and renewal scenarios.            *)
(*                                                                         *)
(* Representation.  Money is an integer number of cents, so round(x, 2)    *)
(* is rounding to an integer.  An annual rate is an integer number of      *)
(* basis points (500 is 0.05).  The floating-point quantities the code     *)
(* never rounds to cents (the effective monthly rate, the growth factor    *)
(* (1 + m)^n) are fixed-point numbers with Scale units to 1.  A monthly    *)
(* payment is a fraction [num, den] of cents, because the zero-rate branch *)
(* of calculate_payment returns principal / months without rounding.       *)
(* None is the empty tuple; a date is <<year, month, day>>.  The inputs    *)
(* the model draws from are ones on which this arithmetic and the floats   *)
(* of the code give the same cents in every schedule row and payment.      *)
(***************************************************************************)
EXTENDS Integers, Sequences, FiniteSets, TLC

Limb == 100 * 100
Scale == Limb * Limb
BasisPoint == Scale \div 10000

None == << >>

Abs(x) == IF x < 0 THEN -x ELSE x
Sign(x) == IF x < 0 THEN -1 ELSE 1

(* Python's round(): to the nearest, ties to the even neighbour.  q and r  *)
(* are the quotient and remainder of a non-negative division by d.         *)
RoundHalfEven(q, r, d) ==
    IF 2 * r < d THEN q
    ELSE IF 2 * r > d THEN q + 1
    ELSE IF q % 2 = 0 THEN q ELSE q + 1

(* round(a / d) for integers a and d > 0 *)
RoundDiv(a, d) == Sign(a) * RoundHalfEven(Abs(a) \div d, Abs(a) % d, d)

(* round(a * b / Scale) for 0 <= a, b: schoolbook product on two limbs, so *)
(* that no intermediate value leaves 32 bits.                              *)
MulAbs(a, b) ==
    LET ah == a \div Limb
        al == a % Limb
        bh == b \div Limb
        bl == b % Limb
        c  == (ah * bl) + (al * bh)
        lo == ((c % Limb) * Limb) + (al * bl)
    IN  RoundHalfEven((ah * bh) + (c \div Limb) + (lo \div Scale), lo % Scale, Scale)

(* the float product a * b, one factor or both in fixed point *)
Mul(a, b) == Sign(a) * Sign(b) * MulAbs(Abs(a), Abs(b))

(* x ** n for a fixed-point x and an integer n >= 0 *)
RECURSIVE Pow(_, _)
Pow(x, n) ==
    IF n = 0 THEN Scale
    ELSE IF n % 2 = 0 THEN LET h == Pow(x, n \div 2) IN Mul(h, h)
    ELSE Mul(Pow(x, n - 1), x)

(* long division: the quotient and remainder of r * 10^k by b *)
RECURSIVE LongDiv(_, _, _, _)
LongDiv(q, r, b, k) ==
    IF k = 0 THEN <<q, r>>
    ELSE LongDiv((10 * q) + ((10 * r) \div b), (10 * r) % b, b, k - 1)

(* the float quotient a / b of two fixed-point numbers, 0 <= a, 0 < b *)
Div(a, b) ==
    LET qr == LongDiv(a \div b, a % b, b, 8)
    IN  RoundHalfEven(qr[1], qr[2], b)

(* x ** (1/12) for a fixed-point x >= 1: Newton's iteration from y, at    *)
(* most k rounds, ended when the correction is below one unit.             *)
RECURSIVE Root12(_, _, _)
Root12(x, y, k) ==
    LET excess == Pow(y, 12) - x
        step == Div(Abs(excess) \div 12, Pow(y, 11))
    IN  IF k = 0 \/ step = 0 THEN y
        ELSE Root12(x, y - (Sign(excess) * step), k - 1)

--------------------------------------------------------------------------
(* float: the doubles the balance of a schedule runs through.  Every one   *)
(* is a whole number of units of 2^-59, the spacing of the doubles next to *)
(* 0.01, and is kept as a sign and a magnitude of three words of 24 bits,  *)
(* most significant first.                                                 *)

(* Op(x), with x evaluated once and then handed to Op as a value *)
Apply(Op(_), x) == CHOOSE y \in { Op(v) : v \in {x} } : TRUE

Word == 2^24

(* the number of bits of 0 <= x < Word, found by bisection *)
BitLength(x) ==
    IF x >= 2^12
    THEN IF x >= 2^18
         THEN IF x >= 2^21
              THEN IF x >= 2^23
                   THEN 24
                   ELSE IF x >= 2^22
                        THEN 23
                        ELSE 22
              ELSE IF x >= 2^20
                   THEN 21
                   ELSE IF x >= 2^19
                        THEN 20
                        ELSE 19
         ELSE IF x >= 2^15
              THEN IF x >= 2^17
                   THEN 18
                   ELSE IF x >= 2^16
                        THEN 17
                        ELSE 16
              ELSE IF x >= 2^14
                   THEN 15
                   ELSE IF x >= 2^13
                        THEN 14
                        ELSE 13
    ELSE IF x >= 2^6
         THEN IF x >= 2^9
              THEN IF x >= 2^11
                   THEN 12
                   ELSE IF x >= 2^10
                        THEN 11
                        ELSE 10
              ELSE IF x >= 2^8
                   THEN 9
                   ELSE IF x >= 2^7
                        THEN 8
                        ELSE 7
         ELSE IF x >= 2^3
              THEN IF x >= 2^5
                   THEN 6
                   ELSE IF x >= 2^4
                        THEN 5
                        ELSE 4
              ELSE IF x >= 2^1
                   THEN IF x >= 2^2
                        THEN 3
                        ELSE 2
                   ELSE IF x >= 2^0
                        THEN 1
                        ELSE 0

MagLength(a) ==
    IF a[1] > 0 THEN 48 + BitLength(a[1])
    ELSE IF a[2] > 0 THEN 24 + BitLength(a[2]) ELSE BitLength(a[3])

MagLess(a, b) ==
    \/ a[1] < b[1]
    \/ a[1] = b[1] /\ a[2] < b[2]
    \/ a[1] = b[1] /\ a[2] = b[2] /\ a[3] < b[3]

MagAdd(a, b) ==
    LET l == a[3] + b[3]
        m == a[2] + b[2] + (l \div Word)
    IN  <<a[1] + b[1] + (m \div Word), m % Word, l % Word>>

(* a - b for b <= a *)
MagSub(a, b) ==
    LET l == a[3] - b[3]
        m == a[2] - b[2] - (IF l < 0 THEN 1 ELSE 0)
    IN  <<a[1] - b[1] - (IF m < 0 THEN 1 ELSE 0), m % Word, l % Word>>

(* The magnitude rounded to the 53 significant bits of a double, ties to   *)
(* even.  below tells what was cut off under the last unit already: 0 for  *)
(* nothing, 1 for less than half a unit, 2 for half, 3 for more.           *)
Round53(a, below) ==
    LET cut(s) ==
            LET q == a[3] \div (2^s)
                r == a[3] % (2^s)
                up == IF s = 0
                      THEN below = 3 \/ (below = 2 /\ q % 2 = 1)
                      ELSE \/ 2 * r > 2^s
                           \/ 2 * r = 2^s /\ (below # 0 \/ q % 2 = 1)
            IN  IF up THEN MagAdd(<<a[1], a[2], q * (2^s)>>, <<0, 0, 2^s>>)
                ELSE <<a[1], a[2], q * (2^s)>>
        length == MagLength(a)
    IN  Apply(cut, IF length > 53 THEN length - 53 ELSE 0)

(* the double nearest to an amount of that many cents, as Python reads a   *)
(* literal and as round(x, 2) returns it                                   *)
float(cents) ==
    LET top == Abs(cents) * (2^11)
        mid == (top % 100) * Word
        low == (mid % 100) * Word
        cut == low % 100
        round(exact) == Round53(exact, IF cut = 0 THEN 0 ELSE IF cut < 50 THEN 1
                                       ELSE IF cut = 50 THEN 2 ELSE 3)
    IN  [ neg |-> cents < 0,
          mag |-> Apply(round, <<top \div 100, mid \div 100, low \div 100>>) ]

(* the float difference a - b *)
float_sub(a, b) ==
    LET round(exact) == Round53(exact, 0)
        less == MagLess(a.mag, b.mag)
    IN  [ neg |-> IF a.neg # b.neg THEN a.neg
                  ELSE IF less THEN ~a.neg ELSE a.neg /\ a.mag # b.mag,
          mag |-> Apply(round, IF a.neg # b.neg THEN MagAdd(a.mag, b.mag)
                               ELSE IF less THEN MagSub(b.mag, a.mag)
                               ELSE MagSub(a.mag, b.mag)) ]

(* the float comparison a <= b *)
float_le(a, b) ==
    IF a.neg # b.neg THEN a.neg \/ (a.mag = <<0, 0, 0>> /\ b.mag = <<0, 0, 0>>)
    ELSE IF a.neg THEN ~MagLess(a.mag, b.mag) ELSE ~MagLess(b.mag, a.mag)

--------------------------------------------------------------------------
(* datetime *)

IsLeap(y) == (y % 4 = 0 /\ y % 100 # 0) \/ y % 400 = 0

DaysInMonth(y, m) ==
    IF m = 2 THEN (IF IsLeap(y) THEN 29 ELSE 28)
    ELSE IF m \in {4, 6, 9, 11} THEN 30 ELSE 31

(* datetime.replace(year, month): raises ValueError when the day does not  *)
(* exist in the target month.                                              *)
replace(d, year, month) ==
    IF d[3] <= DaysInMonth(year, month)
    THEN [ok |-> TRUE, date |-> <<year, month, d[3]>>]
    ELSE [ok |-> FALSE, date |-> d]

(* the code's "one month later": December rolls to January of next year *)
next_month(d) ==
    IF d[2] = 12 THEN replace(d, d[1] + 1, 1) ELSE replace(d, d[1], d[2] + 1)

(* d1 < d2, which leaves the day itself out *)
DateBefore(d1, d2) ==
    \/ d1[1] < d2[1]
    \/ d1[1] = d2[1] /\ d1[2] < d2[2]
    \/ d1[1] = d2[1] /\ d1[2] = d2[2] /\ d1[3] < d2[3]

(* datetime comparison d1 <= d2 *)
DateLE(d1, d2) ==
    \/ d1[1] < d2[1]
    \/ d1[1] = d2[1] /\ d1[2] < d2[2]
    \/ d1[1] = d2[1] /\ d1[2] = d2[2] /\ d1[3] <= d2[3]

Digit(n) == <<"0", "1", "2", "3", "4", "5", "6", "7", "8", "9">>[(n % 10) + 1]

(* strftime('%Y-%m-%d'): the ten characters of the formatted date *)
strftime(d) ==
    << Digit(d[1] \div 1000), Digit(d[1] \div 100), Digit(d[1] \div 10), Digit(d[1]),
       "-", Digit(d[2] \div 10), Digit(d[2]),
       "-", Digit(d[3] \div 10), Digit(d[3]) >>

--------------------------------------------------------------------------
(* CanadianMortgageCalculator *)

(* monthly_rate = (1 + ((1 + r/2)**2 - 1)) ** (1/12) - 1, in fixed point *)
get_effective_monthly_rate(self) ==
    LET semi_annual_rate == (self.annual_rate * BasisPoint) \div 2
        effective_annual_rate == Mul(Scale + semi_annual_rate, Scale + semi_annual_rate) - Scale
    IN  Root12(Scale + effective_annual_rate,
               Scale + (effective_annual_rate \div 12), 8) - Scale

(* the monthly payment as a fraction of cents: principal / months when the *)
(* rate is zero, otherwise the annuity payment rounded to the cent.        *)
(* A payment whose zero-rate branch hands back the principal undivided.    *)
calculate_payment_undivided(self, amortization_months) ==
    IF self.annual_rate = 0
    THEN [num |-> self.original_principal, den |-> 1]
    ELSE LET monthly_rate == get_effective_monthly_rate(self)
             growth == Pow(Scale + monthly_rate, amortization_months)
             factor == Div(Mul(monthly_rate, growth), growth - Scale)
         IN  [num |-> Mul(self.original_principal, factor), den |-> 1]

calculate_payment(self, amortization_months) ==
    IF self.annual_rate = 0
    THEN [num |-> self.original_principal, den |-> amortization_months]
    ELSE LET monthly_rate == get_effective_monthly_rate(self)
             growth == Pow(Scale + monthly_rate, amortization_months)
             factor == Div(Mul(monthly_rate, growth), growth - Scale)
         IN  [num |-> Mul(self.original_principal, factor), den |-> 1]

(* CanadianMortgageCalculator.__init__ *)
NewMortgage(original_principal, annual_rate, amortization_months, term_months, start_date, mortgage_gap) ==
    LET self == [ original_principal |-> original_principal,
                  annual_rate |-> annual_rate,
                  amortization_months |-> amortization_months,
                  term_months |-> term_months,
                  start_date |-> start_date,
                  mortgage_gap |-> mortgage_gap,
                  balance_at_renewal |-> 0,
                  payoff_time_months |-> 0 ]
    IN  [ f \in DOMAIN self \cup {"monthly_payment"} |->
            IF f = "monthly_payment"
            THEN calculate_payment(self, amortization_months)
            ELSE self[f] ]

(* One pass of the payment loop of create_full_amortization_schedule and   *)
(* the passes after it.  st holds the loop's local variables and the two   *)
(* fields of the object the loop assigns; st.raised is set when advancing  *)
(* the date raises ValueError, which ends the call at that point.  The     *)
(* balance is kept twice: in cents, the amount the rows show rounded, and  *)
(* as the float it is, which the test that ends the loop compares.         *)
(* A monthly share of the extra payment rounded to whole currency units.   *)
extra_per_month_whole_units(extra_annual_payment) ==
    RoundDiv(extra_annual_payment, 1200) * 100

(* round(extra_annual_payment / 12, 2) *)
extra_per_month(extra_annual_payment) == RoundDiv(extra_annual_payment, 12)

(* A schedule row whose Beginning_Balance leaves the extra payment out.    *)
Beginning_Balance_without_extra(balance, principal_payment, extra_annual_payment_per_month) ==
    balance + principal_payment

(* the row's Beginning_Balance, rebuilt from the balance after the payment *)
Beginning_Balance(balance, principal_payment, extra_annual_payment_per_month) ==
    balance + principal_payment + extra_annual_payment_per_month

(* a running total that leaves the extra payment out *)
Cumulative_Principal_without_extra(total, principal_payment, extra) ==
    total + principal_payment

(* cumulative_principal += round(principal_payment +                       *)
(* extra_annual_payment_per_month, 2)                                      *)
Cumulative_Principal(total, principal_payment, extra) ==
    total + (principal_payment + extra)

(* 0.01 *)
one_cent == float(1)

(* balance <= 0.01, the test that ends the loop, on the float the balance is *)
paid_off(balance) == float_le(balance, one_cent)

RECURSIVE payment_loop(_, _, _, _)
payment_loop(self, monthly_rate, extra_annual_payment_per_month, st) ==
    IF st.payment_num > self.amortization_months \/ paid_off(st.balance_float)
    THEN st
    ELSE
      LET mortgage_gap == self.mortgage_gap[1] # None
          in_gap == /\ DateLE(self.mortgage_gap[1], st.current_date)
                    /\ DateLE(st.current_date, self.mortgage_gap[2])
          total_monthly_payment ==
              IF mortgage_gap
              THEN IF in_gap THEN [num |-> 0, den |-> 1] ELSE self.monthly_payment
              ELSE st.total_monthly_payment
          interest_payment == Mul(st.balance, monthly_rate)
          \* round(min(total_monthly_payment - interest_payment, balance), 2)
          over_interest == total_monthly_payment.num
                             - (interest_payment * total_monthly_payment.den)
          principal_payment ==
              IF over_interest <= st.balance * total_monthly_payment.den
              THEN RoundDiv(over_interest, total_monthly_payment.den)
              ELSE st.balance
          actual_payment == interest_payment + principal_payment
          balance == st.balance - (principal_payment + extra_annual_payment_per_month)
          cumulative_interest == st.cumulative_interest + interest_payment
          cumulative_principal ==
              Cumulative_Principal(st.cumulative_principal, principal_payment,
                                   extra_annual_payment_per_month)
          row == [ Payment_Number |-> st.payment_num,
                   Date |-> strftime(st.current_date),
                   Beginning_Balance |->
                       Beginning_Balance(balance, principal_payment,
                                         extra_annual_payment_per_month),
                   Payment_Amount |-> actual_payment,
                   Principal_Payment |-> principal_payment,
                   Extra_Annual_Payment |-> extra_annual_payment_per_month,
                   Interest_Payment |-> interest_payment,
                   Ending_Balance |-> balance,
                   Cumulative_Principal |-> cumulative_principal,
                   Cumulative_Interest |-> cumulative_interest,
                   Year |-> st.current_date[1],
                   Month |-> st.current_date[2] ]
          moved == next_month(st.current_date)
          continue(next) ==
              payment_loop(self, monthly_rate, extra_annual_payment_per_month, next)
          \* balance -= round(principal_payment + extra_annual_payment_per_month, 2)
          subtract(paid) == float_sub(st.balance_float, paid)
          append(balance_float) ==
              LET appended ==
                      [st EXCEPT !.total_monthly_payment = total_monthly_payment,
                                 !.balance = balance,
                                 !.balance_float = balance_float,
                                 !.cumulative_interest = cumulative_interest,
                                 !.cumulative_principal = cumulative_principal,
                                 !.schedule = Append(@, row),
                                 !.balance_at_renewal =
                                     IF st.payment_num = self.term_months
                                     THEN balance ELSE @]
              IN  IF ~moved.ok
                  THEN [appended EXCEPT !.raised = TRUE]
                  ELSE IF paid_off(balance_float)
                  THEN [appended EXCEPT !.current_date = moved.date,
                                        !.payoff_time_months = st.payment_num]
                  ELSE Apply(continue, [appended EXCEPT !.current_date = moved.date,
                                                        !.payment_num = @ + 1])
      IN  Apply(append, Apply(subtract, Apply(float, principal_payment
                                                       + extra_annual_payment_per_month)))

(* create_full_amortization_schedule: the returned rows, the two fields it *)
(* leaves in the object, and whether it raised instead of returning.       *)
create_full_amortization_schedule(self, extra_annual_payment) ==
    LET first == next_month(self.start_date)
        st0 == [ payment_num |-> 1,
                 balance |-> self.original_principal,
                 balance_float |-> float(self.original_principal),
                 total_monthly_payment |-> self.monthly_payment,
                 cumulative_interest |-> 0,
                 cumulative_principal |-> 0,
                 current_date |-> first.date,
                 schedule |-> << >>,
                 balance_at_renewal |-> self.balance_at_renewal,
                 payoff_time_months |-> self.payoff_time_months,
                 raised |-> FALSE ]
        end == IF first.ok
               THEN payment_loop(self, get_effective_monthly_rate(self),
                                 extra_per_month(extra_annual_payment), st0)
               ELSE [st0 EXCEPT !.raised = TRUE]
    IN  [ schedule |-> end.schedule,
          balance_at_renewal |-> end.balance_at_renewal,
          payoff_time_months |-> end.payoff_time_months,
          raised |-> end.raised ]

--------------------------------------------------------------------------
(* RenewalScenario and MortgageRenewalPlanner *)

(* dict.get(key, default) *)
get(dict, key, default) == IF key \in DOMAIN dict THEN dict[key] ELSE default

(* RenewalScenario.__init__: the new object, or raised when the config has *)
(* no new_rate.  An optional integer is None or a one-element tuple.  The  *)
(* field current_mortgage is a reference to the mortgage object and reads  *)
(* its fields as they are when the scenario is built.                      *)
(* A new principal taken from the original principal, not the balance.    *)
new_principal_of_original(current_mortgage, principal_paydown) ==
    current_mortgage.original_principal - principal_paydown

new_principal(current_mortgage, principal_paydown) ==
    current_mortgage.balance_at_renewal - principal_paydown

RenewalScenario(scenario_config, current_mortgage) ==
    LET new_rate == IF "new_rate" \in DOMAIN scenario_config
                    THEN <<scenario_config["new_rate"]>> ELSE None
        principal_paydown == get(scenario_config, "principal_paydown", 0)
        new_term_amortization_years ==
            IF "new_amortization_years" \in DOMAIN scenario_config
            THEN <<scenario_config["new_amortization_years"]>> ELSE None
    IN  IF new_rate = None
        THEN [raised |-> TRUE]
        ELSE [ raised |-> FALSE,
               scenario_name |-> get(scenario_config, "name", "Unknown"),
               new_rate |-> new_rate[1],
               rate_type |-> get(scenario_config, "rate_type", "fixed"),
               new_term |-> get(scenario_config, "new_term", 5),
               principal_paydown |-> principal_paydown,
               extra_annual_payment |-> get(scenario_config, "extra_annual_payment", 0),
               double_up_monthly_payments |->
                   get(scenario_config, "double_up_monthly_payments", FALSE),
               new_principal |-> new_principal(current_mortgage, principal_paydown),
               new_term_amortization_years |-> new_term_amortization_years,
               new_term_amortization |->
                   IF new_term_amortization_years # None
                   THEN <<new_term_amortization_years[1] * 12>> ELSE None,
               new_mortgage |-> None,
               new_mortgage_schedule |-> None,
               new_monthly_payment |-> None,
               total_term_interest |-> None,
               total_term_cost |-> None,
               total_remaining |-> None,
               payoff_time_months |-> None,
               payment_range_min |-> 0,
               payment_range_max |-> 0,
               interest_range_min |-> 0,
               interest_range_max |-> 0,
               risk_score |-> 0,
               break_even_rate |-> 0,
               rate_sensitivity |-> 0 ]

(* setting an attribute the object may not have yet *)
setattr(self, name, value) == (name :> value) @@ self

(* 0 if x is None else x *)
or_zero(x) == IF x = None THEN 0 ELSE x[1]

(* RenewalScenarioResult(...), the row combine_results builds.  Amounts in *)
(* cents and rates in basis points are already rounded.                    *)
RenewalScenarioResult(self) ==
    [ scenario_name |-> self.scenario_name,
      paydown_amount |-> self.principal_paydown,
      double_up_monthly_payments |-> self.double_up_monthly_payments,
      new_rate |-> self.new_rate,
      rate_type |-> self.rate_type,
      new_principal |-> self.new_principal,
      new_term_amortization |-> or_zero(self.new_term_amortization),
      new_monthly_payment |-> or_zero(self.new_monthly_payment),
      new_extra_annual_payment |-> self.extra_annual_payment,
      payoff_time_months |-> or_zero(self.payoff_time_months),
      total_term_interest |-> or_zero(self.total_term_interest),
      total_term_cost |-> or_zero(self.total_term_cost),
      total_remaining |-> or_zero(self.total_remaining),
      payment_range_min |-> self.payment_range_min,
      payment_range_max |-> self.payment_range_max,
      interest_range_min |-> self.interest_range_min,
      interest_range_max |-> self.interest_range_max,
      risk_score |-> self.risk_score,
      break_even_rate |-> self.break_even_rate,
      rate_sensitivity |-> self.rate_sensitivity ]

(* A result row that carries the variable-rate placeholder, new_rate plus  *)
(* half a percent, as its break_even_rate whatever the rate type.          *)
combine_results_with_placeholder(self) ==
    setattr(self, "results",
            [RenewalScenarioResult(self) EXCEPT !.break_even_rate = self.new_rate + 50])

combine_results(self) == setattr(self, "results", RenewalScenarioResult(self))

(* datetime.now(), the start date of a mortgage built without one *)
now == <<2024, 6, 15>>

(* the default term_months of a mortgage built without one *)
default_term_months == 60

(* the amortizations, in years, find_best_standard_amortization tries *)
standard_years == <<5, 10, 15, 20, 25, 30>>

(* calculated_payment - current_mortgage.monthly_payment, as a fraction *)
calculate_difference(calculated_payment, monthly_payment) ==
    [ num |-> (calculated_payment.num * monthly_payment.den)
                - (monthly_payment.num * calculated_payment.den),
      den |-> calculated_payment.den * monthly_payment.den ]

(* abs(a['difference']) < abs(b['difference']) *)
closer(a, b) ==
    Abs(a.difference.num) * b.difference.den < Abs(b.difference.num) * a.difference.den

(* the last of the options that no other is closer than *)
min_abs_difference_last(options) ==
    options[CHOOSE i \in DOMAIN options :
              \A j \in DOMAIN options :
                  IF j > i THEN closer(options[i], options[j])
                  ELSE ~closer(options[j], options[i])]

(* min(options, key=lambda x: abs(x['difference'])): the first of the      *)
(* options that no other is closer than                                    *)
min_abs_difference(options) ==
    options[CHOOSE i \in DOMAIN options :
              \A j \in DOMAIN options :
                  IF j < i THEN closer(options[i], options[j])
                  ELSE ~closer(options[j], options[i])]

find_best_standard_amortization(self, current_mortgage) ==
    LET option(base_case, years) ==
            LET payment == calculate_payment(base_case, years * 12)
            IN  [ years |-> years,
                  months |-> years * 12,
                  payment |-> payment,
                  difference |-> calculate_difference(payment,
                                                      current_mortgage.monthly_payment) ]
        options(base_case) ==
            SubSeq([i \in DOMAIN standard_years |-> option(base_case, standard_years[i])],
                   1, Len(standard_years))
        choose(finding_best_amortization_results) ==
            LET best_option == min_abs_difference(finding_best_amortization_results)
            IN  [ setattr(setattr(self, "finding_best_amortization_results",
                                  finding_best_amortization_results),
                          "best_option", best_option)
                    EXCEPT !.new_term_amortization = <<best_option.months>> ]
    IN  Apply(choose,
              Apply(options,
                    NewMortgage(self.new_principal, self.new_rate,
                                current_mortgage.amortization_months,
                                default_term_months, now, <<None, None>>)))

(* simulate_new_mortgage: a scenario with nothing left to amortize gets    *)
(* zero totals and its result row.  For any other the constructor call of  *)
(* line 149 passes double_up_monthly_payments, a keyword                   *)
(* CanadianMortgageCalculator.__init__ does not have: TypeError, and the   *)
(* rest of the method is never run.                                        *)
simulate_new_mortgage(self) ==
    IF self.new_principal <= 0
    THEN [ raised |-> None,
           self |-> combine_results([self EXCEPT !.total_term_interest = <<0>>,
                                                 !.total_term_cost = <<0>>,
                                                 !.total_remaining = <<0>>]) ]
    ELSE [ raised |-> <<"TypeError">>, self |-> self ]

(* dict[key] = value on an insertion-ordered dict, a sequence of           *)
(* <<key, value>> pairs: an existing key keeps its place.                  *)
setitem(dict, key, value) ==
    IF \E i \in DOMAIN dict : dict[i][1] = key
    THEN [i \in DOMAIN dict |-> IF dict[i][1] = key THEN <<key, value>> ELSE dict[i]]
    ELSE Append(dict, <<key, value>>)

(* dict.values() *)
values(dict) == [i \in DOMAIN dict |-> dict[i][2]]

(* key in dict *)
contains(dict, key) == \E i \in DOMAIN dict : dict[i][1] = key

(* dict[key] for a key the dict contains *)
getitem(dict, key) == dict[CHOOSE i \in DOMAIN dict : dict[i][1] = key][2]

(* the return rates scenario_analysis projects the unspent cash at *)
investment_return_rates == <<300, 500, 1000>>

(* calculate_compound_interest(principal, annual_rate, years) with no      *)
(* monthly contribution and monthly compounding; scenario_analysis passes  *)
(* years = new_term / 12, so that compounding_frequency * years, the       *)
(* exponent, is new_term.  Amounts are kept to the cent.                   *)
calculate_compound_interest(principal, annual_rate, new_term) ==
    LET rate_per_period == RoundDiv(annual_rate * BasisPoint, 12)
        final_amount == Mul(principal, Pow(Scale + rate_per_period, new_term))
        total_contributions == principal
    IN  [ initial_principal |-> principal,
          monthly_contribution |-> 0,
          total_contributions |-> total_contributions,
          final_amount |-> final_amount,
          total_interest |-> final_amount - total_contributions,
          years |-> [num |-> new_term, den |-> 12],
          annual_rate |-> annual_rate,
          effective_return |-> IF total_contributions > 0
                               THEN Div(final_amount, total_contributions) - Scale
                               ELSE 0 ]

(* The body of the loop of scenario_analysis for one scenario.  self is    *)
(* the planner, whose dicts keep what was stored before an exception.      *)
analyse_scenario(self, current_mortgage, scenario, max_paydown) ==
    LET combine(new) == IF new.new_principal <= 0 THEN combine_results(new) ELSE new
        find(sc) == IF sc.new_term_amortization = None
                    THEN find_best_standard_amortization(sc, current_mortgage)
                    ELSE sc
        invest(sc) ==
            LET investment_amount == max_paydown - sc.principal_paydown
                returns == [ i \in DOMAIN investment_return_rates |->
                               << investment_return_rates[i],
                                  calculate_compound_interest(investment_amount,
                                      investment_return_rates[i], sc.new_term) >> ]
            IN  IF "name" \notin DOMAIN scenario
                THEN [raised |-> <<"KeyError">>, self |-> self]
                ELSE [ raised |-> None,
                       self |-> [ self EXCEPT
                           !.investment_return_scenarios =
                               IF investment_amount > 0
                               THEN setitem(@, scenario["name"], returns)
                               ELSE @,
                           !.renewal_scenarios = setitem(@, scenario["name"], sc) ] ]
        store(simulated) ==
            IF simulated.raised # None
            THEN [raised |-> simulated.raised, self |-> self]
            ELSE invest(simulated.self)
        simulate(new) ==
            IF new.raised
            THEN [raised |-> <<"ValueError">>, self |-> self]
            ELSE Apply(store, Apply(simulate_new_mortgage, Apply(find, Apply(combine, new))))
    IN  Apply(simulate, RenewalScenario(scenario, current_mortgage))

RECURSIVE analyse_scenarios(_, _, _, _, _)
analyse_scenarios(self, current_mortgage, scenarios, i, max_paydown) ==
    IF i > Len(scenarios) THEN [raised |-> None, self |-> self]
    ELSE LET next(r) ==
                 IF r.raised # None THEN r
                 ELSE analyse_scenarios(r.self, current_mortgage, scenarios, i + 1, max_paydown)
         IN  Apply(next, analyse_scenario(self, current_mortgage, scenarios[i], max_paydown))

(* MortgageRenewalPlanner.scenario_analysis: both dicts start empty, then  *)
(* the scenarios are constructed, simulated and stored one after another.  *)
scenario_analysis(self, current_mortgage, scenarios, max_paydown) ==
    analyse_scenarios(setattr(setattr(self, "renewal_scenarios", << >>),
                              "investment_return_scenarios", << >>),
                      current_mortgage, scenarios, 1, max_paydown)

(* MortgageRenewalPlanner.calculate_break_even_rates.  The comparison of   *)
(* line 70 goes on, for a fixed and a variable scenario with the same      *)
(* principal_paydown, to read extra_monthly_payment, an attribute no       *)
(* RenewalScenario has: AttributeError.  With no such pair no scenario is  *)
(* matched, and nothing is assigned.                                       *)
calculate_break_even_rates(self) ==
    IF "renewal_scenarios" \notin DOMAIN self
    THEN [raised |-> <<"AttributeError">>, self |-> self]
    ELSE LET all == values(self.renewal_scenarios)
             fixed_scenarios == SelectSeq(all, LAMBDA sc : sc.rate_type = "fixed")
             variable_scenarios == SelectSeq(all, LAMBDA sc : sc.rate_type = "variable")
         IN  IF \E v \in DOMAIN variable_scenarios : \E f \in DOMAIN fixed_scenarios :
                    fixed_scenarios[f].principal_paydown
                        = variable_scenarios[v].principal_paydown
             THEN [raised |-> <<"AttributeError">>, self |-> self]
             ELSE [raised |-> None, self |-> self]

(* MortgageRenewalPlanner.to_frame: the result rows of the stored          *)
(* scenarios, in the order of the dict; pd.concat of no rows raises.       *)
to_frame(self) ==
    IF "renewal_scenarios" \notin DOMAIN self
    THEN [raised |-> <<"AttributeError">>, frame |-> << >>]
    ELSE IF self.renewal_scenarios = << >>
    THEN [raised |-> <<"ValueError">>, frame |-> << >>]
    ELSE [ raised |-> None,
           frame |-> [ i \in DOMAIN self.renewal_scenarios |->
                         self.renewal_scenarios[i][2].results ] ]

--------------------------------------------------------------------------
(* The inputs the model draws from: principals and extra payments in       *)
(* cents, rates in basis points, a start date whose day every month has    *)
(* and two whose day the next month (2024-01-31) or the one after          *)
(* (2024-12-31) lacks, and a payment gap that covers the second and third  *)
(* payment of a mortgage started on 2023-12-20.                            *)

Principals == {2, 104, 100000}
Rates == {0, 600, 1200}
Amortizations == {2, 14}
Terms == {6, 12}
StartDates == {<<2023, 12, 20>>, <<2024, 1, 31>>, <<2024, 12, 31>>}
Gaps == {<<None, None>>, << <<2024, 2, 1>>, <<2024, 3, 20>> >>}
Extras == {0, 5, 10000, 120000}
PaymentMonths == {1, 2, 12}
NewRates == {350}
Paydowns == {0, 10000}

--------------------------------------------------------------------------
VARIABLES
    mortgage,   \* the CanadianMortgageCalculator object
    planner,    \* the MortgageRenewalPlanner object, None before it is built
    call,       \* the operation that ran last and its argument
    result,     \* what that operation returned
    raised      \* whether it raised instead of returning

vars == <<mortgage, planner, call, result, raised>>

Init ==
    /\ mortgage \in { NewMortgage(p, r, n, t, d, g) :
                        p \in Principals, r \in Rates, n \in Amortizations,
                        t \in Terms, d \in StartDates, g \in Gaps }
    /\ planner = None
    /\ call = [op |-> "__init__", arg |-> 0]
    /\ result = None
    /\ raised = FALSE

(* mortgage.create_full_amortization_schedule(extra_annual_payment) *)
CreateSchedule ==
    \E extra_annual_payment \in Extras :
        \E r \in {create_full_amortization_schedule(mortgage, extra_annual_payment)} :
            /\ mortgage' = [mortgage EXCEPT
                              !.balance_at_renewal = r.balance_at_renewal,
                              !.payoff_time_months = r.payoff_time_months]
            /\ call' = [op |-> "create_full_amortization_schedule",
                        arg |-> extra_annual_payment]
            /\ result' = IF r.raised THEN None ELSE r.schedule
            /\ raised' = r.raised
            /\ UNCHANGED planner

(* mortgage.calculate_payment(amortization_months) *)
CalculatePayment ==
    \E amortization_months \in PaymentMonths :
        /\ call' = [op |-> "calculate_payment", arg |-> amortization_months]
        /\ result' = calculate_payment(mortgage, amortization_months)
        /\ raised' = FALSE
        /\ UNCHANGED <<mortgage, planner>>

(* MortgageRenewalPlanner(mortgage): the constructor generates the current *)
(* mortgage's schedule, with no extra payment, and keeps it.               *)
NewPlanner ==
    \E r \in {create_full_amortization_schedule(mortgage, 0)} :
        /\ mortgage' = [mortgage EXCEPT
                          !.balance_at_renewal = r.balance_at_renewal,
                          !.payoff_time_months = r.payoff_time_months]
        /\ planner' = IF r.raised THEN planner
                      ELSE [current_mortgage_schedule |-> r.schedule]
        /\ call' = [op |-> "MortgageRenewalPlanner", arg |-> 0]
        /\ result' = None
        /\ raised' = r.raised

(* The scenario configs a caller may pass: with or without a paydown, the  *)
(* paydown possibly the whole balance at renewal, with or without a rate.  *)
ScenarioConfigs ==
    { [name |-> "rate", new_rate |-> nr] : nr \in NewRates }
    \cup { [name |-> "paydown", new_rate |-> nr, principal_paydown |-> pd] :
             nr \in NewRates, pd \in Paydowns \cup {mortgage.balance_at_renewal} }
    \cup { [name |-> "no rate", principal_paydown |-> pd] : pd \in Paydowns }

(* RenewalScenario(scenario_config, mortgage): the constructor, which a    *)
(* planner calls with its current mortgage for each config it is given.    *)
NewScenario ==
    \E scenario_config \in ScenarioConfigs :
        LET sc == RenewalScenario(scenario_config, mortgage)
        IN  /\ call' = [op |-> "RenewalScenario", arg |-> scenario_config]
            /\ result' = IF sc.raised THEN None ELSE sc
            /\ raised' = sc.raised
            /\ UNCHANGED <<mortgage, planner>>

Next == CreateSchedule \/ CalculatePayment \/ NewPlanner \/ NewScenario

Spec == Init /\ [][Next]_vars

--------------------------------------------------------------------------
(* The planner on its own: a planner is built for a mortgage and then      *)
(* analyses lists of scenario configs, computes break-even rates and       *)
(* tabulates its results, in any order and any number of times.            *)

PlannerPrincipal == 100000
PlannerRates == {0, 600}
PlannerAmortization == 14
PlannerStartDate == <<2023, 12, 20>>
ExtraMonthly == 5000
ExtraAnnual == 10000
Overpayment == 10000
MaxPaydowns == {50000}

(* The configs a caller may pass, by name: the balance kept or paid down   *)
(* to nothing or beyond, at a fixed or a variable rate, with or without an *)
(* amortization length, extra payments and doubled payments, and configs   *)
(* that lack the rate or the name.                                         *)
Config(name) ==
    LET B == mortgage.balance_at_renewal
        nr == CHOOSE r \in NewRates : TRUE
    IN  CASE name = "keep" -> [name |-> name, new_rate |-> nr]
          [] name = "variable" -> [name |-> name, new_rate |-> nr, rate_type |-> "variable"]
          [] name = "extra" ->
                [name |-> name, new_rate |-> nr, extra_monthly_payment |-> ExtraMonthly]
          [] name = "double" ->
                [name |-> name, new_rate |-> nr, double_up_monthly_payments |-> TRUE]
          [] name = "payoff" -> [name |-> name, new_rate |-> nr, principal_paydown |-> B]
          [] name = "payoff variable" ->
                [name |-> name, new_rate |-> nr, rate_type |-> "variable",
                 principal_paydown |-> B]
          [] name = "payoff years" ->
                [name |-> name, new_rate |-> nr, principal_paydown |-> B,
                 new_amortization_years |-> 1, extra_annual_payment |-> ExtraAnnual]
          [] name = "payoff extra" ->
                [name |-> name, new_rate |-> nr, principal_paydown |-> B,
                 extra_monthly_payment |-> ExtraMonthly]
          [] name = "overpay" ->
                [name |-> name, new_rate |-> nr, principal_paydown |-> B + Overpayment]
          [] name = "no rate" -> [name |-> name, principal_paydown |-> B]
          [] name = "" -> [new_rate |-> nr, principal_paydown |-> B]

ConfigNames ==
    { "keep", "variable", "extra", "double", "payoff", "payoff variable",
      "payoff years", "payoff extra", "overpay", "no rate", "" }

(* the configs that are also passed two at a time *)
PairedNames == { "keep", "payoff", "payoff variable", "overpay", "no rate" }

(* the lists passed: none, one, or two different configs in either order *)
ScenarioLists ==
    { << >> } \cup { <<Config(c)>> : c \in ConfigNames }
    \cup { <<Config(cd[1]), Config(cd[2])>> :
             cd \in { p \in PairedNames \X PairedNames : p[1] # p[2] } }

PlannerInit ==
    /\ mortgage \in { NewMortgage(PlannerPrincipal, r, PlannerAmortization,
                                    t, PlannerStartDate, <<None, None>>) :
                        r \in PlannerRates, t \in Terms }
    /\ planner = None
    /\ call = [op |-> "__init__", arg |-> 0]
    /\ result = None
    /\ raised = FALSE

(* planner.scenario_analysis(scenarios, max_paydown); result is the        *)
(* exception raised, if any                                                *)
ScenarioAnalysis ==
    /\ planner # None
    /\ \E scenarios \in ScenarioLists, max_paydown \in MaxPaydowns :
        \E r \in {scenario_analysis(planner, mortgage, scenarios, max_paydown)} :
            /\ planner' = r.self
            /\ call' = [op |-> "scenario_analysis", arg |-> <<scenarios, max_paydown>>]
            /\ result' = r.raised
            /\ raised' = (r.raised # None)
            /\ UNCHANGED mortgage

(* planner.calculate_break_even_rates() *)
CalculateBreakEvenRates ==
    /\ planner # None
    /\ \E r \in {calculate_break_even_rates(planner)} :
           /\ planner' = r.self
           /\ call' = [op |-> "calculate_break_even_rates", arg |-> 0]
           /\ result' = r.raised
           /\ raised' = (r.raised # None)
           /\ UNCHANGED mortgage

(* planner.to_frame() *)
ToFrame ==
    /\ planner # None
    /\ \E r \in {to_frame(planner)} :
           /\ call' = [op |-> "to_frame", arg |-> 0]
           /\ result' = IF r.raised # None THEN r.raised ELSE r.frame
           /\ raised' = (r.raised # None)
           /\ UNCHANGED <<mortgage, planner>>

(* the configs whose scenario is also searched on its own *)
SearchedNames == { "keep", "payoff", "overpay" }

(* RenewalScenario(config, mortgage).find_best_standard_amortization();    *)
(* result is the scenario as the search leaves it                          *)
FindBestStandardAmortization ==
    \E name \in SearchedNames :
        \E sc \in {RenewalScenario(Config(name), mortgage)} :
            /\ call' = [op |-> "find_best_standard_amortization", arg |-> Config(name)]
            /\ result' = find_best_standard_amortization(sc, mortgage)
            /\ raised' = FALSE
            /\ UNCHANGED <<mortgage, planner>>

PlannerNext ==
    \/ NewPlanner
    \/ ScenarioAnalysis
    \/ CalculateBreakEvenRates
    \/ ToFrame
    \/ FindBestStandardAmortization

PlannerSpec == PlannerInit /\ [][PlannerNext]_vars

--------------------------------------------------------------------------
(* What the claims are stated about. *)
Returned(op) == call.op = op /\ ~raised
ScheduleReturned == Returned("create_full_amortization_schedule")

(* C1: in every schedule create_full_amortization_schedule returns, with   *)
(* any extra payment and with or without a payment gap, the first entry's  *)
(* Beginning_Balance is original_principal and every later entry's         *)
(* Beginning_Balance is the Ending_Balance of the entry before it.         *)
C1_BalanceChain ==
    ScheduleReturned =>
        \A i \in 1..Len(result) :
            result[i].Beginning_Balance =
                IF i = 1 THEN mortgage.original_principal
                ELSE result[i - 1].Ending_Balance

(* a schedule of several entries, made with an extra payment, in a gap *)
C1_Witness ==
    /\ ScheduleReturned
    /\ Len(result) >= 3
    /\ result[3].Extra_Annual_Payment > 0
    /\ mortgage.mortgage_gap[1] # None
    /\ result[3].Beginning_Balance = result[2].Ending_Balance
    /\ result[1].Beginning_Balance = mortgage.original_principal


(* C2: Ending_Balance never rises from one entry to the next, at any rate, *)
(* with any extra payment, with or without a payment gap.                  *)
C2_NonIncreasing ==
    ScheduleReturned =>
        \A i \in 2..Len(result) :
            result[i].Ending_Balance <= result[i - 1].Ending_Balance

RECURSIVE SumTo(_, _)
SumTo(amounts, i) == IF i = 0 THEN 0 ELSE amounts[i] + SumTo(amounts, i - 1)

PaidOff(schedule) ==
    Len(schedule) > 0 /\ schedule[Len(schedule)].Ending_Balance <= 1

(* C3: when a schedule runs to full payoff, the Principal_Payment column   *)
(* and the Extra_Annual_Payment column together sum to original_principal, *)
(* give or take 5 currency units, whatever the extra payment.              *)
C3_Conservation ==
    (ScheduleReturned /\ PaidOff(result)) =>
        LET paid == SumTo([i \in 1..Len(result) |->
                             result[i].Principal_Payment + result[i].Extra_Annual_Payment],
                          Len(result))
        IN  Abs(paid - mortgage.original_principal) <= 500

(* C4: after create_full_amortization_schedule returns, balance_at_renewal *)
(* is the Ending_Balance of the entry numbered term_months, and it is 0    *)
(* when the mortgage was paid off in fewer than term_months payments.      *)
C4_BalanceAtRenewal ==
    ScheduleReturned =>
        /\ \A i \in 1..Len(result) :
              result[i].Payment_Number = mortgage.term_months
                  => mortgage.balance_at_renewal = result[i].Ending_Balance
        /\ (PaidOff(result) /\ Len(result) < mortgage.term_months)
              => mortgage.balance_at_renewal = 0

(* the same terms on a newly constructed object *)
Fresh(self) ==
    NewMortgage(self.original_principal, self.annual_rate, self.amortization_months,
                self.term_months, self.start_date, self.mortgage_gap)

(* C5: whatever calls came before, a call of                               *)
(* create_full_amortization_schedule leaves the schedule, the              *)
(* balance_at_renewal and the payoff_time_months that the same call leaves *)
(* on a freshly constructed mortgage of the same terms.                    *)
C5_SameAsFresh ==
    call.op = "create_full_amortization_schedule" =>
        LET fresh == create_full_amortization_schedule(Fresh(mortgage), call.arg)
        IN  /\ raised = fresh.raised
            /\ ~raised => result = fresh.schedule
            /\ mortgage.balance_at_renewal = fresh.balance_at_renewal
            /\ mortgage.payoff_time_months = fresh.payoff_time_months

(* C6: in every entry Payment_Amount is Principal_Payment plus             *)
(* Interest_Payment, give or take 0.02, and neither part is negative.      *)
C6_PaymentSplit ==
    ScheduleReturned =>
        \A i \in 1..Len(result) :
            /\ Abs(result[i].Payment_Amount
                     - (result[i].Principal_Payment + result[i].Interest_Payment)) <= 2
            /\ result[i].Principal_Payment >= 0
            /\ result[i].Interest_Payment >= 0

NextYearMonth(year, month) == IF month = 12 THEN <<year + 1, 1>> ELSE <<year, month + 1>>

(* C7: for every start date a schedule is generated, its first entry dated *)
(* one calendar month after start_date on the same day of the month, each  *)
(* later entry one calendar month after the entry before it, and Year and  *)
(* Month are those of the entry's date.                                    *)
C7_MonthlyDates ==
    call.op = "create_full_amortization_schedule" =>
        /\ ~raised
        /\ \A i \in 1..Len(result) :
              LET due == IF i = 1
                         THEN NextYearMonth(mortgage.start_date[1], mortgage.start_date[2])
                         ELSE NextYearMonth(result[i - 1].Year, result[i - 1].Month)
              IN  /\ result[i].Year = due[1]
                  /\ result[i].Month = due[2]
                  /\ result[i].Date = strftime(<<due[1], due[2], mortgage.start_date[3]>>)

(* C8 as the specification words it: for principal > 0, rate >= 0 and      *)
(* months > 0, months = 1 and rate = 0 included, the monthly payment is    *)
(* above 0 and strictly below the principal.                               *)
C8_AsStated ==
    Returned("calculate_payment") =>
        /\ result.num > 0
        /\ result.num < mortgage.original_principal * result.den

(* C8: the monthly payment is never negative; over one month it is at      *)
(* least the principal; over two months or more, for a principal of at     *)
(* least one cent per month, it is above 0 and strictly below the          *)
(* principal.                                                              *)
C8_PaymentRange ==
    Returned("calculate_payment") =>
        /\ result.num >= 0
        /\ call.arg = 1 => result.num >= mortgage.original_principal * result.den
        /\ (call.arg >= 2 /\ mortgage.original_principal >= call.arg) =>
              /\ result.num > 0
              /\ result.num < mortgage.original_principal * result.den

(* a payment at a positive rate over twelve months, inside the range *)
C8_Witness ==
    /\ Returned("calculate_payment")
    /\ call.arg = 12
    /\ mortgage.annual_rate > 0
    /\ mortgage.original_principal >= call.arg
    /\ result.num > 0
    /\ result.num < mortgage.original_principal * result.den

(* the schedule of the same terms with no extra payment *)
WithoutExtra == create_full_amortization_schedule(mortgage, 0).schedule

(* C9 as the specification words it: with an extra payment E > 0 the       *)
(* Ending_Balance at period 12 is strictly below the one with no extra     *)
(* payment, by at least E and by less than 1.05 x E.                       *)
C9_AsStated ==
    (ScheduleReturned /\ call.arg > 0 /\ Len(result) >= 12 /\ Len(WithoutExtra) >= 12) =>
        LET reduction == WithoutExtra[12].Ending_Balance - result[12].Ending_Balance
        IN  /\ reduction > 0
            /\ reduction >= call.arg
            /\ 100 * reduction < 105 * call.arg

(* C9: when the monthly share round(E / 12, 2) of the extra payment is     *)
(* above 0 and both schedules reach period 12, the Ending_Balance at       *)
(* period 12 is strictly lower with the extra payment; while that balance  *)
(* is still above 0 the reduction is at least twelve monthly shares.       *)
C9_ExtraLowersBalance ==
    (/\ ScheduleReturned
     /\ RoundDiv(call.arg, 12) > 0
     /\ Len(result) >= 12
     /\ Len(WithoutExtra) >= 12) =>
        LET reduction == WithoutExtra[12].Ending_Balance - result[12].Ending_Balance
        IN  /\ reduction > 0
            /\ result[12].Ending_Balance > 0 => reduction >= 12 * RoundDiv(call.arg, 12)

(* a schedule with an extra payment that reaches period 12 with a balance  *)
(* left, at a positive rate and through a payment gap                      *)
C9_Witness ==
    /\ ScheduleReturned
    /\ RoundDiv(call.arg, 12) > 0
    /\ Len(result) >= 12
    /\ Len(WithoutExtra) >= 12
    /\ result[12].Ending_Balance > 0
    /\ mortgage.annual_rate > 0
    /\ mortgage.mortgage_gap[1] # None
    /\ result[12].Ending_Balance < WithoutExtra[12].Ending_Balance

(* the balances the term_months checkpoint of this mortgage can capture *)
Checkpoints ==
    { create_full_amortization_schedule(mortgage, e).schedule[mortgage.term_months]
          .Ending_Balance :
        e \in { x \in Extras : Len(create_full_amortization_schedule(mortgage, x).schedule)
                                  >= mortgage.term_months } }

(* C10: a scenario's new_principal is the source mortgage's                *)
(* balance_at_renewal, the balance its term_months checkpoint captured (0  *)
(* while none has), less principal_paydown, exactly; it is 0 when the      *)
(* paydown is that balance.                                                *)
C10_NewPrincipal ==
    Returned("RenewalScenario") =>
        LET principal_paydown == get(call.arg, "principal_paydown", 0)
        IN  /\ result.new_principal = mortgage.balance_at_renewal - principal_paydown
            /\ mortgage.balance_at_renewal \in Checkpoints \cup {0}
            /\ principal_paydown = mortgage.balance_at_renewal => result.new_principal = 0

(* a scenario that pays down the whole balance the planner's schedule has  *)
(* at term_months                                                          *)
C10_Witness ==
    /\ Returned("RenewalScenario")
    /\ planner # None
    /\ Len(planner.current_mortgage_schedule) >= mortgage.term_months
    /\ mortgage.balance_at_renewal =
         planner.current_mortgage_schedule[mortgage.term_months].Ending_Balance
    /\ mortgage.balance_at_renewal > 0
    /\ result.principal_paydown = mortgage.balance_at_renewal
    /\ result.new_principal = 0

--------------------------------------------------------------------------
(* The planner's claims, stated about PlannerSpec. *)

(* scenario_analysis was the last call, returned or not *)
Analysed == call.op = "scenario_analysis"
Scenarios == call.arg[1]

HasRate(config) == "new_rate" \in DOMAIN config
HasName(config) == "name" \in DOMAIN config
AllConfigs(P(_)) == \A i \in DOMAIN Scenarios : P(Scenarios[i])

(* the new principal a config asks for: what is owed at renewal less the paydown *)
Asked(config) == new_principal(mortgage, get(config, "principal_paydown", 0))
NothingOwed(config) == HasRate(config) /\ HasName(config) /\ Asked(config) <= 0
Owed(config) == HasRate(config) /\ HasName(config) /\ Asked(config) > 0

Stored(name) == contains(planner.renewal_scenarios, name)
Row(name) == getitem(planner.renewal_scenarios, name).results

ZeroFields ==
    { "new_principal", "new_term_amortization", "new_monthly_payment",
      "new_extra_annual_payment", "payoff_time_months", "total_term_interest",
      "total_term_cost", "total_remaining", "payment_range_min", "payment_range_max",
      "interest_range_min", "interest_range_max", "risk_score", "break_even_rate",
      "rate_sensitivity" }

(* C11: when every scenario of the list has a new principal <= 0, the call *)
(* returns, and each scenario's result row is zero in every numeric field  *)
(* but paydown_amount and new_rate, amortization length supplied or not.   *)
C11_NothingOwedIsZeroRow ==
    (Analysed /\ AllConfigs(NothingOwed)) =>
        /\ ~raised
        /\ \A i \in DOMAIN Scenarios :
              /\ Stored(Scenarios[i].name)
              /\ \A f \in ZeroFields : Row(Scenarios[i].name)[f] = 0

(* C12: a list in which some config has no new_rate ends in ValueError,    *)
(* with no scenario of the call simulated.                                 *)
C12_NoRateBeforeSimulation ==
    (Analysed /\ \E i \in DOMAIN Scenarios : ~HasRate(Scenarios[i])) =>
        /\ raised
        /\ result = <<"ValueError">>
        /\ planner.renewal_scenarios = << >>

(* C13: a list of one or more named configs that all carry a new_rate is   *)
(* analysed                                                                *)
(* without an exception, and to_frame then has one row per config, in the  *)
(* order of the list, with a positive new_monthly_payment wherever the new *)
(* principal is positive.                                                  *)
C13_OneRowPerConfig ==
    (Analysed /\ Scenarios # << >> /\ AllConfigs(HasRate) /\ AllConfigs(HasName)) =>
        /\ ~raised
        /\ to_frame(planner).raised = None
        /\ Len(to_frame(planner).frame) = Len(Scenarios)
        /\ \A i \in DOMAIN Scenarios :
              LET row == to_frame(planner).frame[i]
              IN  /\ row.scenario_name = Scenarios[i].name
                  /\ row.new_principal > 0 => row.new_monthly_payment > 0

(* what a run of scenario_analysis left for the config of that name *)
ResultOf(self, name) ==
    IF contains(self.renewal_scenarios, name)
    THEN <<getitem(self.renewal_scenarios, name).results>> ELSE None

Reverse(list) == [i \in DOMAIN list |-> list[Len(list) + 1 - i]]

(* the planner after analysing that list instead, with the same max_paydown *)
Rerun(list) == scenario_analysis(planner, mortgage, list, call.arg[2]).self

(* C14: for a list of named configs with a new_rate, each config's result  *)
(* is the one it has when the list is passed in reverse and the one it has *)
(* when it is passed alone; and a run of scenario_analysis leaves the      *)
(* mortgage's monthly_payment and balance_at_renewal as they were.         *)
C14_OrderInsensitive ==
    /\ [](Analysed /\ AllConfigs(HasRate) /\ AllConfigs(HasName) =>
            \A i \in DOMAIN Scenarios :
                LET name == Scenarios[i].name
                IN  /\ ResultOf(planner, name) = ResultOf(Rerun(Reverse(Scenarios)), name)
                    /\ ResultOf(planner, name) = ResultOf(Rerun(<<Scenarios[i]>>), name))
    /\ [][Analysed' => /\ mortgage'.monthly_payment = mortgage.monthly_payment
                       /\ mortgage'.balance_at_renewal = mortgage.balance_at_renewal]_vars

(* scenario_analysis was last called with that one config *)
AnalysedAlone(config) == Analysed /\ Scenarios = <<config>>

(* the mortgage a stored scenario renews into, and its schedule with that  *)
(* much extra a year                                                       *)
Renewed(sc) ==
    NewMortgage(sc.new_principal, sc.new_rate, sc.new_term_amortization[1],
                default_term_months, now, <<None, None>>)
RenewedSchedule(sc, extra_annual_payment) ==
    create_full_amortization_schedule(Renewed(sc), extra_annual_payment).schedule

(* the entry of the new term's last payment, or the schedule's last entry *)
EndOfTerm(sc, schedule) ==
    schedule[IF sc.new_term * 12 < Len(schedule) THEN sc.new_term * 12 ELSE Len(schedule)]

(* C15: a scenario with a new principal > 0 reports, as total_term_interest, *)
(* total_term_cost and total_remaining, the Cumulative_Interest,           *)
(* Cumulative_Principal and Ending_Balance of the new mortgage's entry     *)
(* number new_term x 12, or of its last entry if it has fewer.             *)
C15_TermAggregates ==
    \A c \in {Config(n) : n \in ConfigNames} :
        (AnalysedAlone(c) /\ Owed(c)) =>
            /\ ~raised
            /\ Stored(c.name)
            /\ LET sc == getitem(planner.renewal_scenarios, c.name)
                   end_of_term == EndOfTerm(sc, RenewedSchedule(sc, sc.extra_annual_payment))
               IN  /\ sc.results.total_term_interest = end_of_term.Cumulative_Interest
                   /\ sc.results.total_term_cost = end_of_term.Cumulative_Principal
                   /\ sc.results.total_remaining = end_of_term.Ending_Balance

(* the config without that key *)
Without(config, key) == [k \in DOMAIN config \ {key} |-> config[k]]

(* C16: a scenario with a new principal > 0 and an extra_monthly_payment   *)
(* > 0 has a result whose total_remaining is strictly below that of the    *)
(* same config without the extra monthly payment.                          *)
C16_ExtraMonthlyLowersRemaining ==
    \A c \in {Config(n) : n \in ConfigNames} :
        (AnalysedAlone(c) /\ Owed(c) /\ get(c, "extra_monthly_payment", 0) > 0) =>
            LET with == ResultOf(planner, c.name)
                without == ResultOf(Rerun(<<Without(c, "extra_monthly_payment")>>), c.name)
            IN  /\ with # None
                /\ without # None
                /\ with[1].total_remaining < without[1].total_remaining

(* C17: a scenario with a new principal > 0 and double_up_monthly_payments *)
(* set returns with a result row, whose balance at the end of the term is  *)
(* that of the new mortgage paid with its monthly payment twice over.      *)
C17_DoubleUp ==
    \A c \in {Config(n) : n \in ConfigNames} :
        (AnalysedAlone(c) /\ Owed(c) /\ get(c, "double_up_monthly_payments", FALSE)) =>
            /\ ~raised
            /\ Stored(c.name)
            /\ LET sc == getitem(planner.renewal_scenarios, c.name)
                   doubled == RoundDiv(12 * Renewed(sc).monthly_payment.num,
                                       Renewed(sc).monthly_payment.den)
               IN  sc.results.total_remaining
                     = EndOfTerm(sc, RenewedSchedule(sc, doubled)).Ending_Balance

(* the result rows the planner holds, and those to_frame returned *)
StoredRows ==
    IF planner # None /\ "renewal_scenarios" \in DOMAIN planner
    THEN { sc.results : sc \in { s \in {kv[2] : kv \in {planner.renewal_scenarios[i] : i \in DOMAIN planner.renewal_scenarios}} : "results" \in DOMAIN s } }
    ELSE {}
FrameRows ==
    IF call.op = "to_frame" /\ ~raised THEN { result[i] : i \in DOMAIN result } ELSE {}

VariableOnlyFields ==
    { "payment_range_min", "payment_range_max", "interest_range_min",
      "interest_range_max", "risk_score", "rate_sensitivity", "break_even_rate" }

(* C18: in every result row, stored or returned by to_frame, after         *)
(* scenario_analysis and after calculate_break_even_rates alike,           *)
(* risk_score is an integer in 0..100, and the row of a fixed-rate         *)
(* scenario is 0 in every variable-only field.                             *)
C18_VariableOnlyFields ==
    \A row \in StoredRows \cup FrameRows :
        /\ row.risk_score \in 0..100
        /\ row.rate_type = "fixed" => \A f \in VariableOnlyFields : row[f] = 0

(* calculate_break_even_rates has returned with the rows of a fixed-rate   *)
(* and of a variable-rate scenario stored                                  *)
C18_Witness ==
    /\ Returned("calculate_break_even_rates")
    /\ \E fixed, variable \in StoredRows :
          /\ fixed.rate_type = "fixed"
          /\ variable.rate_type = "variable"
          /\ \A f \in VariableOnlyFields : fixed[f] = 0

(* C19: calculate_break_even_rates, called with a fixed-rate and a         *)
(* variable-rate scenario stored by scenario_analysis, returns without     *)
(* raising.                                                                *)
C19_BreakEvenCompletes ==
    ( /\ call.op = "calculate_break_even_rates"
      /\ "renewal_scenarios" \in DOMAIN planner
      /\ \E fixed, variable \in StoredRows :
            fixed.rate_type = "fixed" /\ variable.rate_type = "variable" ) =>
        ~raised

(* C20: every schedule create_full_amortization_schedule returns has at    *)
(* most amortization_months entries, none with a Beginning_Balance of one  *)
(* cent or less, and none after an entry whose Ending_Balance is one cent  *)
(* or less.                                                                *)
C20_StopsWhenPaidOff ==
    ScheduleReturned =>
        /\ Len(result) <= mortgage.amortization_months
        /\ \A i \in DOMAIN result : result[i].Beginning_Balance > 1
        /\ \A i \in DOMAIN result : result[i].Ending_Balance <= 1 => i = Len(result)

(* C21: for a mortgage without a payment gap, every schedule              *)
(* create_full_amortization_schedule returns ends with an entry whose      *)
(* Ending_Balance is one cent or less, and payoff_time_months is that      *)
(* entry's Payment_Number.                                                 *)
C21_FullyRetired ==
    (ScheduleReturned /\ mortgage.mortgage_gap[1] = None) =>
        /\ Len(result) > 0
        /\ result[Len(result)].Ending_Balance <= 1
        /\ mortgage.payoff_time_months = result[Len(result)].Payment_Number

(* a schedule was returned for a mortgage with a payment gap *)
GapScheduleReturned == ScheduleReturned /\ mortgage.mortgage_gap[1] # None

(* the date an entry's payment falls on, and whether the gap holds it *)
PaymentDate(entry) == <<entry.Year, entry.Month, mortgage.start_date[3]>>
Calendar(d) == (d[1] * 10000) + (d[2] * 100) + d[3]
InWindow(entry) ==
    /\ Calendar(mortgage.mortgage_gap[1]) <= Calendar(PaymentDate(entry))
    /\ Calendar(PaymentDate(entry)) <= Calendar(mortgage.mortgage_gap[2])

(* the principal an entry pays when monthly_payment is its active payment: *)
(* the payment less the interest, or the balance if that is less           *)
PrincipalDue(entry) ==
    LET payment == mortgage.monthly_payment
        over_interest == payment.num - (entry.Interest_Payment * payment.den)
    IN  IF over_interest <= entry.Beginning_Balance * payment.den
        THEN RoundDiv(over_interest, payment.den)
        ELSE entry.Beginning_Balance

(* C22 as stated: with a payment gap, an entry's Payment_Amount is 0       *)
(* exactly when its payment date is within the gap, both ends included.    *)
C22_AsStated ==
    GapScheduleReturned =>
        \A i \in DOMAIN result : (result[i].Payment_Amount = 0) <=> InWindow(result[i])

(* C22: with a payment gap, every entry whose payment date is within the   *)
(* gap, both ends included, has Payment_Amount 0; every other entry, after *)
(* the gap too, pays with monthly_payment as its active payment, and its   *)
(* Payment_Amount is above 0 when monthly_payment is a cent or more.       *)
C22_GapPayments ==
    GapScheduleReturned =>
        \A i \in DOMAIN result :
            IF InWindow(result[i])
            THEN result[i].Payment_Amount = 0
            ELSE /\ result[i].Principal_Payment = PrincipalDue(result[i])
                 /\ result[i].Payment_Amount
                       = result[i].Interest_Payment + result[i].Principal_Payment
                 /\ mortgage.monthly_payment.num >= mortgage.monthly_payment.den
                       => result[i].Payment_Amount > 0

(* a schedule with an entry before the gap, one within it that owes        *)
(* interest, one on the gap's last day, and one after it that pays         *)
C22_Witness ==
    /\ GapScheduleReturned
    /\ \E i, j, k, l \in DOMAIN result :
          /\ i < j /\ j < k /\ k < l
          /\ ~InWindow(result[i]) /\ result[i].Payment_Amount > 0
          /\ InWindow(result[j]) /\ result[j].Interest_Payment > 0
          /\ result[j].Payment_Amount = 0
          /\ PaymentDate(result[k]) = mortgage.mortgage_gap[2]
          /\ result[k].Payment_Amount = 0
          /\ ~InWindow(result[l]) /\ result[l].Payment_Amount > 0

(* C23: with no extra payment, every entry whose payment date is within    *)
(* the payment gap has an Ending_Balance equal to its Beginning_Balance.   *)
C23_GapKeepsBalance ==
    (GapScheduleReturned /\ call.arg = 0) =>
        \A i \in DOMAIN result :
            InWindow(result[i]) => result[i].Ending_Balance = result[i].Beginning_Balance

(* C29: in every entry of a returned schedule, whatever the extra payment, *)
(* Principal_Payment + Extra_Annual_Payment is at most Beginning_Balance   *)
(* and Ending_Balance is at least 0.                                       *)
C29_NeverOverpaid ==
    ScheduleReturned =>
        \A i \in DOMAIN result :
            /\ result[i].Principal_Payment + result[i].Extra_Annual_Payment
                  <= result[i].Beginning_Balance
            /\ result[i].Ending_Balance >= 0

(* C30: in every entry of a returned schedule, with or without an extra   *)
(* payment or a payment gap, Cumulative_Principal + Ending_Balance is      *)
(* original_principal and Cumulative_Interest is the sum of                *)
(* Interest_Payment over the entries up to it, each within a cent.         *)
C30_RunningTotals ==
    ScheduleReturned =>
        \A i \in DOMAIN result :
            /\ Abs((result[i].Cumulative_Principal + result[i].Ending_Balance)
                     - mortgage.original_principal) <= 1
            /\ Abs(result[i].Cumulative_Interest
                     - SumTo([k \in DOMAIN result |-> result[k].Interest_Payment], i)) <= 1

(* a schedule with an extra payment and a payment gap, whose third entry   *)
(* has interest and principal accumulated over a gap period                *)
C30_Witness ==
    /\ GapScheduleReturned
    /\ call.arg > 0
    /\ Len(result) >= 3
    /\ InWindow(result[2])
    /\ result[3].Extra_Annual_Payment > 0
    /\ result[3].Cumulative_Interest > result[3].Interest_Payment
    /\ result[3].Cumulative_Principal + result[3].Ending_Balance
          = mortgage.original_principal

(* a scenario's payment over that many years at its new principal and rate *)
CandidatePayment(sc, years) ==
    calculate_payment([original_principal |-> sc.new_principal, annual_rate |-> sc.new_rate],
                      years * 12)

(* |payment over a years - monthly payment| <= or < that over b years *)
Distance(sc, years) ==
    LET payment == CandidatePayment(sc, years)
        current == mortgage.monthly_payment
    IN  [ num |-> Abs((payment.num * current.den) - (current.num * payment.den)),
          den |-> payment.den * current.den ]
NoFarther(sc, a, b) ==
    Distance(sc, a).num * Distance(sc, b).den <= Distance(sc, b).num * Distance(sc, a).den
Nearer(sc, a, b) ==
    Distance(sc, a).num * Distance(sc, b).den < Distance(sc, b).num * Distance(sc, a).den

StandardYears == { standard_years[i] : i \in DOMAIN standard_years }

(* the scenario's amortization length is that of the standard candidate    *)
(* nearest the mortgage's monthly payment, the shortest of the nearest     *)
BestChosen(sc) ==
    \E years \in StandardYears :
        /\ sc.new_term_amortization = <<years * 12>>
        /\ \A other \in StandardYears :
              /\ NoFarther(sc, years, other)
              /\ other < years => Nearer(sc, years, other)

StoredScenarios ==
    IF planner # None /\ "renewal_scenarios" \in DOMAIN planner
    THEN { planner.renewal_scenarios[i][2] : i \in DOMAIN planner.renewal_scenarios }
    ELSE {}

(* C24: a scenario searched by find_best_standard_amortization gets the    *)
(* amortization length of the candidate, among 5, 10, 15, 20, 25 and 30    *)
(* years, whose payment at its new principal and rate is nearest the       *)
(* mortgage's monthly payment, the shortest on a tie; scenario_analysis    *)
(* searches for a scenario with no new_amortization_years and leaves the   *)
(* length of one that has it as supplied.                                  *)
C24_BestAmortization ==
    /\ call.op = "find_best_standard_amortization" => BestChosen(result)
    /\ \A sc \in StoredScenarios :
          IF sc.new_term_amortization_years = None
          THEN BestChosen(sc)
          ELSE sc.new_term_amortization = <<sc.new_term_amortization_years[1] * 12>>

(* the search has chosen, for a scenario with a balance left, a candidate  *)
(* that some other candidate is farther than, while the planner holds a    *)
(* scenario for which every candidate ties and the shortest was chosen     *)
C24_Witness ==
    /\ call.op = "find_best_standard_amortization"
    /\ result.new_principal > 0
    /\ \E years \in StandardYears : ~NoFarther(result, years, result.best_option.years)
    /\ \E sc \in StoredScenarios :
          /\ sc.new_term_amortization_years = None
          /\ sc.new_term_amortization = <<60>>
          /\ \A years \in StandardYears : NoFarther(sc, years, 5)

(* C25: a variable-rate scenario with a balance left gets a result row     *)
(* whose risk_score is min(100, round(v * 2)), v being the width of its    *)
(* payment range as a percentage of its monthly payment, rounded to the    *)
(* nearest integer.                                                        *)
C25_RiskScore ==
    \A c \in {Config(n) : n \in ConfigNames} :
        (AnalysedAlone(c) /\ Owed(c) /\ get(c, "rate_type", "fixed") = "variable") =>
            /\ ~raised
            /\ Stored(c.name)
            /\ Row(c.name).new_monthly_payment > 0
            /\ LET row == Row(c.name)
                   doubled == RoundDiv(200 * (row.payment_range_max - row.payment_range_min),
                                       row.new_monthly_payment)
               IN  row.risk_score = IF doubled < 100 THEN doubled ELSE 100

(* the fixed-rate scenarios the planner holds with a variable-rate one's   *)
(* paydown and extra payment, and the first of them nearest in rate        *)
Comparable(variable) ==
    { i \in DOMAIN planner.renewal_scenarios :
        LET fixed == planner.renewal_scenarios[i][2]
        IN  /\ fixed.rate_type = "fixed"
            /\ fixed.principal_paydown = variable.principal_paydown
            /\ fixed.extra_annual_payment = variable.extra_annual_payment }
ClosestFixed(variable) ==
    LET gap(i) == Abs(planner.renewal_scenarios[i][2].new_rate - variable.new_rate)
    IN  planner.renewal_scenarios[
            CHOOSE i \in Comparable(variable) :
                \A j \in Comparable(variable) :
                    gap(i) <= gap(j) /\ (j < i => gap(i) < gap(j))][2]

(* the rate the pairing gives a variable-rate scenario that has a          *)
(* comparable fixed-rate one, in basis points                              *)
Paired(variable) ==
    LET fixed == ClosestFixed(variable)
        difference == or_zero(fixed.total_term_interest)
                        - or_zero(variable.total_term_interest)
    IN  IF difference > 0 /\ variable.rate_sensitivity > 0
        THEN variable.new_rate + RoundDiv(difference * 25, variable.rate_sensitivity * 60)
        ELSE variable.new_rate - 50
VariableScenarios == { sc \in StoredScenarios : sc.rate_type = "variable" }

(* C26: calculate_break_even_rates returns, and leaves each variable-rate  *)
(* scenario with the break_even_rate of its pairing: with no comparable    *)
(* fixed-rate scenario new_rate + 0.005; with one whose term interest is   *)
(* above its own, new_rate + (the difference / (rate_sensitivity * 60)) *  *)
(* 0.0025; with any other, new_rate - 0.005.                               *)
C26_BreakEvenRate ==
    (call.op = "calculate_break_even_rates" /\ StoredScenarios # {}) =>
        /\ ~raised
        /\ \A variable \in VariableScenarios :
              variable.break_even_rate = IF Comparable(variable) = {}
                                         THEN variable.new_rate + 50
                                         ELSE Paired(variable)

(* the cash a config leaves unspent, and its value after that many months  *)
(* at a yearly rate compounded monthly                                     *)
Unspent(sc) == call.arg[2] - sc.principal_paydown
Compounded(amount, rate, months) ==
    Mul(amount, Pow(Scale + RoundDiv(rate * BasisPoint, 12), months))
Projections(name) == getitem(planner.investment_return_scenarios, name)

(* C27: for a config scenario_analysis stored a scenario for, alone in its *)
(* list, that leaves max_paydown - principal_paydown > 0 unspent, the      *)
(* projection at each of 3%, 5% and 10% is unspent * (1 + rate/12)^months  *)
(* over the months of the new term, 12 for each of its years; one that     *)
(* leaves nothing unspent has no projection.                               *)
C27_Projection ==
    \A c \in {Config(n) : n \in ConfigNames} :
        (AnalysedAlone(c) /\ NothingOwed(c) /\ ~raised) =>
            /\ Stored(c.name)
            /\ LET sc == getitem(planner.renewal_scenarios, c.name)
               IN  IF Unspent(sc) > 0
                   THEN /\ contains(planner.investment_return_scenarios, c.name)
                        /\ { Projections(c.name)[i][1] : i \in DOMAIN Projections(c.name) }
                              = {300, 500, 1000}
                        /\ \A i \in DOMAIN Projections(c.name) :
                              Projections(c.name)[i][2].final_amount
                                = Compounded(Unspent(sc), Projections(c.name)[i][1],
                                             sc.new_term * 12)
                   ELSE ~contains(planner.investment_return_scenarios, c.name)

(* C28: when to_frame is called after calculate_break_even_rates, its row *)
(* for a variable-rate scenario that has a comparable fixed-rate one shows *)
(* the break_even_rate the pairing gives it, not the new_rate + 0.005 of   *)
(* the simulation.                                                         *)
C28_FrameShowsPairing ==
    [][ (call.op = "calculate_break_even_rates" /\ call'.op = "to_frame") =>
            \A variable \in { v \in VariableScenarios : Comparable(v) # {} } :
                /\ ~raised'
                /\ \E i \in DOMAIN result' :
                      /\ result'[i].scenario_name = variable.scenario_name
                      /\ result'[i].break_even_rate = Paired(variable)
                      /\ result'[i].break_even_rate # variable.new_rate + 50 ]_vars

====
